---- MODULE Spec2Model ----
(***************************************************************************)
(* Model of main(options, replay_file) of perftracker/runner_cfg.py: the   *)
(* orchestrator that picks the HTTP server class, acquires the DNS         *)
(* service, the HTTP service and the traffic shaper as three nested        *)
(* `with` blocks, idles in a one-second sleep loop until the time limit,   *)
(* and reports what ended the run in its `except` clauses.                 *)
(*                                                                         *)
(* The three engines (dnsproxy, httpproxy, trafficshaper) are imported by  *)
(* the file but are not part of it.  What the model takes from them is     *)
(* only what a context manager can do to the `with` statement that uses    *)
(* it: its acquisition returns or raises, its release returns or raises.   *)
(* KeyboardInterrupt is asynchronous: Python raises it in the main thread  *)
(* wherever the thread happens to be, inside main's own code (action       *)
(* Interrupt) or inside an engine's acquisition or release (the outcome    *)
(* "KeyboardInterrupt" of those steps).                                    *)
(***************************************************************************)
EXTENDS Integers, Sequences, FiniteSets, TLC

\* Largest --time_limit value explored.
MaxTimeLimit == 3

\* Largest number of interrupts (SIGINT) delivered in one run.
MaxInterrupts == 2

\* time.sleep(1): the period of the idle loop, in seconds.
SleepSeconds == 1

\* The longest a single sleep may take beyond its period, in seconds.
MaxOversleep == 1

\* The clock is not followed past this value (no limit in the model is larger).
ElapsedCap == MaxTimeLimit + SleepSeconds + MaxOversleep

VARIABLES
    options,              \* the parsed command line handed to main()
    pc,                   \* main()'s position
    replay_server_class,  \* the local of that name; "None" until assigned
    http_started,         \* the class instantiated by the second `with`
    held,                 \* held[e]: e's host resource is currently acquired
    acquired,             \* engines whose acquisition completed, in order
    active,               \* engines whose `with` block is open, innermost last
    exits,                \* engines whose release was invoked, in order
    exc,                  \* the exception propagating in main(), or "None"
    faults,               \* <<engine, operation>> that failed, interrupts apart
    cut_short,            \* engines whose release raised instead of returning
    interrupts,           \* number of KeyboardInterrupts raised so far
    elapsed,              \* time.time() - start, in seconds
    loop_exit,            \* how the idle loop was left
    log,                  \* severities main() passed to logging
    printed,              \* main() printed a traceback
    escaped               \* the exception that left main(), or "None"

vars == <<options, pc, replay_server_class, http_started, held, acquired,
          active, exits, exc, faults, cut_short, interrupts, elapsed,
          loop_exit, log, printed, escaped>>

----------------------------------------------------------------------------
\* The engines, in the order of the three nested `with` statements.
Order == <<"dns", "http", "shaper">>

Engines == {Order[i] : i \in 1..Len(Order)}

\* The exceptions main() tells apart in its `except` clauses.
Exceptions == {"KeyboardInterrupt", "DnsProxyException",
               "TrafficShaperException", "Other"}

\* --time_limit: <<>> is None (the default), <<n>> is the integer n.
TimeLimits == {<<>>} \cup {<<n>> : n \in -1..MaxTimeLimit}

\* The command lines explored.  net_valid says whether the strings given to
\* --up, --down, --delay_ms and --packet_loss_rate have a valid syntax: the
\* parser stores them as plain strings.
OptionSets == [record : BOOLEAN, spdy : BOOLEAN, time_limit : TimeLimits,
               net_valid : BOOLEAN]

----------------------------------------------------------------------------
\* The if / elif / else that picks the HTTP server class.
ServerClassFor_SpdyFirst(o) ==
    IF o.spdy THEN "ReplaySpdyServer"
    ELSE IF o.record THEN "RecordHttpProxyServer"
    ELSE "ReplayHttpProxyServer"

ServerClassFor(o) ==
    IF o.record THEN "RecordHttpProxyServer"
    ELSE IF o.spdy THEN "ReplaySpdyServer"
    ELSE "ReplayHttpProxyServer"

\* The condition of the `while`: Python's `not x` is true of None and of 0.
LoopCondition_ZeroExpires(tl, el) == tl = <<>> \/ el < tl[1]

LoopCondition_OffByOne(tl, el) == tl = <<>> \/ tl[1] = 0 \/ el <= tl[1]

LoopCondition(tl, el) == (tl = <<>> \/ tl[1] = 0) \/ el < tl[1]

\* The position of the release that ends engine e's `with` block.
ReleasePc(e) == "release_" \o e

\* The position of engine e's acquisition.
AcquirePc(e) == "acquire_" \o e

\* Where control goes when the body of the block of the innermost open
\* `with` ends without an exception: to that block's release; with no block
\* open the `try` statement is over and main() returns.
OnFallThrough(stack) ==
    IF stack = <<>> THEN "done" ELSE ReleasePc(stack[Len(stack)])

\* Where control goes when an exception is raised with these `with` blocks
\* open: to the innermost block's release; with none open, to the `except`
\* clauses of the `try`.
OnRaise_StraightToHandler(stack) == "handler"

OnRaise_OutermostOnly(stack) ==
    IF stack = <<>> THEN "handler" ELSE ReleasePc(stack[1])

OnRaise(stack) ==
    IF stack = <<>> THEN "handler" ELSE ReleasePc(stack[Len(stack)])

\* What the `except` clauses do with exception x: the severity logged, if any.
HandlerLog_InterruptIsCritical(x) ==
    IF x \in {"KeyboardInterrupt", "DnsProxyException",
              "TrafficShaperException"}
    THEN {"critical"}
    ELSE {}

HandlerLog(x) ==
    IF x = "KeyboardInterrupt" THEN {"info"}
    ELSE IF x \in {"DnsProxyException", "TrafficShaperException"}
         THEN {"critical"}
    ELSE {}

\* The bare `except:` prints the traceback of anything else.
HandlerPrints(x) ==
    x \notin {"KeyboardInterrupt", "DnsProxyException", "TrafficShaperException"}

\* The exit status of a process that runs main() and ends with it: zero when
\* main() returns, non-zero when an exception leaves it.
ExitStatus == IF escaped = "None" THEN 0 ELSE 1

\* The exceptions an engine's own code raises when it cannot acquire or
\* release its resource.  main() names one exception class for dnsproxy and
\* one for trafficshaper, and none for the HTTP servers.
EngineErrors(e) ==
    IF e = "dns" THEN {"DnsProxyException", "Other"}
    ELSE IF e = "shaper" THEN {"TrafficShaperException", "Other"}
    ELSE {"Other"}

----------------------------------------------------------------------------
Init ==
    /\ options \in OptionSets
    /\ pc = "select"
    /\ replay_server_class = "None"
    /\ http_started = "None"
    /\ held = [e \in Engines |-> FALSE]
    /\ acquired = <<>>
    /\ active = <<>>
    /\ exits = <<>>
    /\ exc = "None"
    /\ faults = {}
    /\ cut_short = {}
    /\ interrupts = 0
    /\ elapsed = 0
    /\ loop_exit = "none"
    /\ log = {}
    /\ printed = FALSE
    /\ escaped = "None"

\* Lines 59-67.  `import replayspdyserver` runs only in the elif branch, and
\* outside the `try`: when the module cannot be imported the ImportError
\* leaves main().
SelectServerClass ==
    /\ pc = "select"
    /\ \/ /\ replay_server_class' = ServerClassFor(options)
          /\ pc' = AcquirePc(Order[1])
          /\ UNCHANGED escaped
       \/ /\ ~options.record /\ options.spdy
          /\ pc' = "done"
          /\ escaped' = "Other"
          /\ UNCHANGED replay_server_class
    /\ UNCHANGED <<options, http_started, held, acquired, active, exits, exc,
                   faults, cut_short, interrupts, elapsed, loop_exit, log,
                   printed>>

\* The position after engine e's block was entered: the next `with`, or the
\* body of the innermost one.
AfterEnter_ShaperBeforeHttp(e) ==
    IF e = "dns" THEN AcquirePc("shaper")
    ELSE IF e = "shaper" THEN AcquirePc("http")
    ELSE "start"

AfterEnter(e) ==
    IF e = "dns" THEN AcquirePc("http")
    ELSE IF e = "http" THEN AcquirePc("shaper")
    ELSE "start"

\* One `with ENGINE(...)`: the constructor and __enter__ run; when they
\* return the resource is held and the block is open, when they raise the
\* resource is not held, the block was never opened and its release will
\* not run.  can_succeed is false when the arguments make acquisition
\* impossible.
Acquire(e, can_succeed) ==
    /\ pc = AcquirePc(e)
    /\ \/ /\ can_succeed
          /\ held' = [held EXCEPT ![e] = TRUE]
          /\ acquired' = Append(acquired, e)
          /\ active' = Append(active, e)
          /\ pc' = AfterEnter(e)
          /\ UNCHANGED <<exc, faults, interrupts>>
       \/ \E x \in EngineErrors(e) :
            /\ exc' = x
            /\ faults' = faults \cup {<<e, "acquire">>}
            /\ pc' = OnRaise(active)
            /\ UNCHANGED <<held, acquired, active, interrupts>>
       \/ /\ interrupts < MaxInterrupts
          /\ interrupts' = interrupts + 1
          /\ exc' = "KeyboardInterrupt"
          /\ pc' = OnRaise(active)
          /\ UNCHANGED <<held, acquired, active, faults>>
    /\ UNCHANGED <<options, replay_server_class, exits, cut_short, elapsed,
                   loop_exit, log, printed, escaped>>

\* Lines 70-71.
AcquireDns ==
    /\ Acquire("dns", TRUE)
    /\ UNCHANGED http_started

\* Lines 72-74: the class picked at the top is instantiated.
AcquireHttp ==
    /\ Acquire("http", TRUE)
    /\ http_started' = IF Len(acquired') > Len(acquired)
                       THEN replay_server_class ELSE http_started

\* Lines 75-79: options.up, .down, .delay_ms and .packet_loss_rate reach
\* the shaper as the strings the parser stored; nothing in main() looks at
\* them earlier.  A shaper cannot be set up from strings with no meaning.
AcquireShaper ==
    /\ Acquire("shaper", options.net_valid)
    /\ UNCHANGED http_started

\* Line 80.
StartTimer ==
    /\ pc = "start"
    /\ elapsed' = 0
    /\ pc' = "check"
    /\ UNCHANGED <<options, replay_server_class, http_started, held,
                   acquired, active, exits, exc, faults, cut_short,
                   interrupts, loop_exit, log, printed, escaped>>

\* Lines 81-82: one evaluation of the loop condition.
CheckTimeLimit ==
    /\ pc = "check"
    /\ IF LoopCondition(options.time_limit, elapsed)
       THEN /\ pc' = "sleep"
            /\ UNCHANGED loop_exit
       ELSE /\ pc' = OnFallThrough(active)
            /\ loop_exit' = "time_limit"
    /\ UNCHANGED <<options, replay_server_class, http_started, held,
                   acquired, active, exits, exc, faults, cut_short,
                   interrupts, elapsed, log, printed, escaped>>

\* Line 83: time.sleep(1) returns after at least a second.
Sleep ==
    /\ pc = "sleep"
    /\ \E d \in SleepSeconds..(SleepSeconds + MaxOversleep) :
         elapsed' = IF elapsed + d > ElapsedCap THEN ElapsedCap
                    ELSE elapsed + d
    /\ pc' = "check"
    /\ UNCHANGED <<options, replay_server_class, http_started, held,
                   acquired, active, exits, exc, faults, cut_short,
                   interrupts, loop_exit, log, printed, escaped>>

\* The end of engine e's `with` block: its release (__exit__) is invoked,
\* with or without an exception propagating.  When it returns the resource
\* is released and whatever was propagating goes on; when it raises, the new
\* exception replaces the one that was propagating, and a release that did
\* not run to its end may or may not have released the resource.  Control
\* goes to the enclosing block either way.
Release(e) ==
    /\ pc = ReleasePc(e)
    /\ exits' = Append(exits, e)
    /\ active' = LET Open(x) == x # e IN SelectSeq(active, Open)
    /\ \/ /\ held' = [held EXCEPT ![e] = FALSE]
          /\ pc' = IF exc = "None" THEN OnFallThrough(active')
                   ELSE OnRaise(active')
          /\ UNCHANGED <<exc, faults, cut_short, interrupts>>
       \/ \E x \in EngineErrors(e), h \in BOOLEAN :
            /\ held' = [held EXCEPT ![e] = h]
            /\ exc' = x
            /\ faults' = faults \cup {<<e, "release">>}
            /\ cut_short' = cut_short \cup {e}
            /\ pc' = OnRaise(active')
            /\ UNCHANGED interrupts
       \/ \E h \in BOOLEAN :
            /\ interrupts < MaxInterrupts
            /\ interrupts' = interrupts + 1
            /\ held' = [held EXCEPT ![e] = h]
            /\ exc' = "KeyboardInterrupt"
            /\ cut_short' = cut_short \cup {e}
            /\ pc' = OnRaise(active')
            /\ UNCHANGED faults
    /\ UNCHANGED <<options, replay_server_class, http_started, acquired,
                   elapsed, loop_exit, log, printed, escaped>>

\* End of the block opened at line 75.
ReleaseShaper == Release("shaper")

\* End of the block opened at line 72.
ReleaseHttp == Release("http")

\* End of the block opened at line 70.
ReleaseDns == Release("dns")

\* Lines 84-91: the `except` clauses; main() then returns.
Handler ==
    /\ pc = "handler"
    /\ log' = log \cup HandlerLog(exc)
    /\ printed' = (printed \/ HandlerPrints(exc))
    /\ exc' = "None"
    /\ pc' = "done"
    /\ UNCHANGED <<options, replay_server_class, http_started, held,
                   acquired, active, exits, faults, cut_short, interrupts,
                   elapsed, loop_exit, escaped>>

\* Positions inside the `try` statement's body, in main()'s own code.
InTry == {"acquire_dns", "acquire_http", "acquire_shaper", "start", "check",
          "sleep", "release_shaper", "release_http", "release_dns"}

\* A KeyboardInterrupt raised between two steps of main()'s own code.
\* Inside the `try` it unwinds through the open `with` blocks to the
\* `except` clauses; before the `try`, or inside an `except` clause, it
\* leaves main().
Interrupt ==
    /\ pc # "done"
    /\ interrupts < MaxInterrupts
    /\ interrupts' = interrupts + 1
    /\ IF pc \in InTry
       THEN /\ exc' = "KeyboardInterrupt"
            /\ pc' = OnRaise(active)
            /\ loop_exit' = IF pc \in {"check", "sleep"} THEN "interrupt"
                            ELSE loop_exit
            /\ UNCHANGED escaped
       ELSE /\ escaped' = "KeyboardInterrupt"
            /\ exc' = "None"
            /\ pc' = "done"
            /\ UNCHANGED loop_exit
    /\ UNCHANGED <<options, replay_server_class, http_started, held,
                   acquired, active, exits, faults, cut_short, elapsed, log,
                   printed>>

\* The steps main() takes by itself.
MainStep ==
    \/ SelectServerClass
    \/ AcquireDns
    \/ AcquireHttp
    \/ AcquireShaper
    \/ StartTimer
    \/ CheckTimeLimit
    \/ Sleep
    \/ ReleaseShaper
    \/ ReleaseHttp
    \/ ReleaseDns
    \/ Handler

Next ==
    \/ MainStep
    \/ Interrupt

Spec == Init /\ [][Next]_vars

\* A running Python thread keeps executing: main() takes its next step
\* whenever it has one.  Nothing obliges an interrupt to arrive.
FairSpec == Spec /\ WF_vars(MainStep)

----------------------------------------------------------------------------
\* Vocabulary of the properties.

Reverse(s) == [i \in 1..Len(s) |-> s[Len(s) + 1 - i]]

IsPrefix(s, t) == Len(s) <= Len(t) /\ SubSeq(t, 1, Len(s)) = s

Range(s) == {s[i] : i \in 1..Len(s)}

AcquireFailed(e) == <<e, "acquire">> \in faults

ReleaseFailed(e) == <<e, "release">> \in faults

StartupFailed == \E e \in Engines : AcquireFailed(e)

Ended == pc = "done"

Reported == log # {} \/ printed

NoneHeld == \A e \in Engines : ~held[e]

InIdleLoop == pc \in {"start", "check", "sleep"}

PositiveLimit == options.time_limit # <<>> /\ options.time_limit[1] > 0

NoLimit == options.time_limit = <<>> \/ options.time_limit = <<0>>

\* Nothing failed, no interrupt arrived, and no exception left main().
Undisturbed == faults = {} /\ interrupts = 0 /\ escaped = "None"

\* The class the configuration flags call for.
ExpectedVariant ==
    IF options.record THEN "RecordHttpProxyServer"
    ELSE IF options.spdy THEN "ReplaySpdyServer"
    ELSE "ReplayHttpProxyServer"

----------------------------------------------------------------------------
C2_StartupFailureReleasesFirst ==
    /\ StartupFailed /\ (pc \in {"handler", "done"} \/ Reported)
           => exits = Reverse(acquired)
    /\ (AcquireFailed("http") \/ AcquireFailed("shaper"))
           /\ (pc \in {"handler", "done"} \/ Reported)
           => "dns" \in Range(exits)
    /\ StartupFailed /\ Reported => Ended
    /\ StartupFailed /\ pc \in {"handler", "done"} /\ cut_short = {}
           => NoneHeld

\* The shaper failed to start, and the HTTP and DNS services were released
\* before the failure was reported.
C2_Witness ==
    /\ Ended
    /\ AcquireFailed("shaper")
    /\ cut_short = {}
    /\ Reported
    /\ exits = <<"http", "dns">>
    /\ NoneHeld

\* C3 (as claimed): after main() ends because of an interrupt, wherever it
\* arrived, or because the time limit was reached, no engine's resource is
\* still held.  Runs in which an engine failed for a reason of its own are
\* left out; runs in which the interrupt cut a release short are not, since
\* teardown is one of the points the interrupt may arrive at.
C3_NothingHeldAfterInterruptOrTimeLimit ==
    Ended /\ faults = {} /\ (interrupts > 0 \/ loop_exit = "time_limit")
        => NoneHeld

\* C4 (as claimed): a run in which an engine could not be acquired logs at
\* critical severity and ends with a non-zero exit status.
C4_StartupFailureIsCriticalAndNonZero ==
    Ended /\ StartupFailed => "critical" \in log /\ ExitStatus # 0

\* C5 (as claimed): with invalid network-simulation parameters neither the
\* DNS service nor the HTTP service is ever acquired.
C5_InvalidConfigAcquiresNothing ==
    ~options.net_valid => "dns" \notin Range(acquired)
                          /\ "http" \notin Range(acquired)

\* C6: a release that fails does not stop the releases that follow it: after
\* the shaper's release failed the HTTP service's release is the next step
\* or has been invoked, after the shaper's or the HTTP service's release
\* failed the DNS service's release is still to come or has been invoked,
\* and when main() reaches its `except` clauses or returns, the release of
\* every acquired engine has been invoked, in reverse order.
C6_AllReleasesRun ==
    /\ ReleaseFailed("shaper")
           => pc = "release_http" \/ "http" \in Range(exits)
    /\ ReleaseFailed("shaper") \/ ReleaseFailed("http")
           => pc \in {"release_http", "release_dns"} \/ "dns" \in Range(exits)
    /\ (\E e \in Engines : ReleaseFailed(e)) /\ pc \in {"handler", "done"}
           => exits = Reverse(acquired)

\* Both the shaper's and the HTTP service's release failed, and all three
\* releases were invoked all the same.
C6_Witness ==
    /\ Ended
    /\ ReleaseFailed("shaper")
    /\ ReleaseFailed("http")
    /\ exits = Reverse(Order)

\* C7: with a positive time limit T the run ends; each sleep is followed by
\* one check; a check leaves the loop exactly when the elapsed time is at
\* least T; and a run that nothing disturbed has left the loop by the time
\* limit, invoked the three releases, holds nothing, reported nothing and
\* exits with status zero.
C7_TimeLimitEndsRun ==
    /\ PositiveLimit ~> Ended
    /\ [][pc = "sleep" /\ interrupts' = interrupts => pc' = "check"]_vars
    /\ [][pc = "check" /\ PositiveLimit /\ interrupts' = interrupts
            => /\ elapsed' = elapsed
               /\ elapsed < options.time_limit[1] => pc' = "sleep"
               /\ elapsed >= options.time_limit[1]
                      => pc' = "release_shaper" /\ loop_exit' = "time_limit"
         ]_vars
    /\ [](Ended /\ PositiveLimit /\ Undisturbed
            => /\ loop_exit = "time_limit"
               /\ elapsed >= options.time_limit[1]
               /\ elapsed < options.time_limit[1] + SleepSeconds + MaxOversleep
               /\ exits = Reverse(Order)
               /\ NoneHeld
               /\ ~Reported
               /\ ExitStatus = 0)

\* An undisturbed run with a time limit of two seconds that ended at the
\* limit.
C7_Witness ==
    /\ Ended
    /\ Undisturbed
    /\ options.time_limit = <<2>>
    /\ loop_exit = "time_limit"
    /\ exits = Reverse(Order)

\* C8: an interrupt in the idle loop runs the same releases as the time
\* limit does (shaper, HTTP, DNS); when it is the only disturbance of the
\* run, main() logs at info severity and nothing else, holds nothing and
\* exits with status zero; and as long as no engine fails, nothing is logged
\* at critical severity.
C8_InterruptIsOrderlyShutdown ==
    /\ loop_exit = "interrupt" /\ pc \in {"handler", "done"}
           => exits = Reverse(Order)
    /\ loop_exit = "interrupt" /\ faults = {}
           => "critical" \notin log /\ ~printed
    /\ loop_exit = "interrupt" /\ faults = {} /\ interrupts = 1 /\ Ended
           => log = {"info"} /\ NoneHeld /\ ExitStatus = 0

\* A run ended by a single interrupt in the idle loop.
C8_Witness ==
    /\ Ended
    /\ loop_exit = "interrupt"
    /\ faults = {}
    /\ interrupts = 1
    /\ log = {"info"}
    /\ exits = Reverse(Order)

\* C9: the server class is assigned before the first acquisition is
\* attempted, it is the one the flags call for (record before spdy), it never
\* changes once assigned, and the class started is that one.
C9_VariantChosenOnce ==
    /\ [](replay_server_class \in {"None", ExpectedVariant})
    /\ [](pc \in InTry \/ acquired # <<>> => replay_server_class # "None")
    /\ []("http" \in Range(acquired) => http_started = ExpectedVariant)
    /\ []("http" \notin Range(acquired) => http_started = "None")
    /\ [][replay_server_class # "None"
            => replay_server_class' = replay_server_class]_vars
    /\ [][http_started # "None" => http_started' = http_started]_vars

\* Both flags set: the recording server is the one running in the idle loop.
C9_Witness ==
    /\ options.record
    /\ options.spdy
    /\ pc = "check"
    /\ http_started = "RecordHttpProxyServer"

====
